---- MODULE Spec2Model ----
(***************************************************************************)
(* The history ledger and the content-addressed asset store of the image   *)
(* generator (src/lib/r2.ts), as a state machine over an object store.     *)
(*                                                                         *)
(* Strings the code computes on are sequences of character codes (ASCII);  *)
(* byte buffers are sequences of 0..255; base64 text is a sequence of      *)
(* sextets 0..63.  An object key `dir/user/name+suffix` is the tuple       *)
(* <<dir, user, name, suffix>>, name being a sequence of numbers (an image *)
(* id, or the characters of a digest).  User ids inside keys are the       *)
(* strings of Users.                                                       *)
(***************************************************************************)
EXTENDS Integers, Sequences, FiniteSets, TLC

\* ---------------------------------------------------------------- bounds
NumProcs == 2       \* requests in flight at once (concurrent specifications)
MaxIds == 2         \* item ids generated in a run (by addItem callers, by POST)
MaxReqs == 3        \* requests started in a run of SpecConc, of SpecFull
MaxFaults == 1      \* storage requests that fail in a run
CapAdds == 102      \* addItem calls in a run of SpecCap
MaxCredLen == 3     \* longest credential drawn in SpecPure

\* ------------------------------------------------------- program constants
HistoryCap == 100   \* history.slice(0, 100)
UserIdLen == 16     \* hash.substring(0, 16)

Users == {"A", "B"}
Procs == 1..NumProcs

\* `undefined` in an optional field of an item (a key, or a list of keys).
Undefined == <<>>

Min(a, b) == IF a < b THEN a ELSE b

\* ------------------------------------------------------------- digests
\* createHash('sha256').update(x).digest('hex'): the library's digest is
\* represented by a fixed function from sequences to 64 lower-case hex
\* characters.
HexChar(d) == IF d < 10 THEN 48 + d ELSE 87 + d

IsHexChar(c) == c \in 48..57 \/ c \in 97..102

RECURSIVE Acc(_)
Acc(s) == IF s = <<>> THEN 7
          ELSE (Acc(SubSeq(s, 1, Len(s) - 1)) * 31 + s[Len(s)] + 1) % 65521

Sha256Hex(s) ==
    LET a == Acc(s)
    IN  [i \in 1..64 |-> HexChar(((a \div (1 + (i % 7))) + i * ((a % 13) + 1)) % 16)]

\* 'anonymous'
Anonymous == <<97, 110, 111, 110, 121, 109, 111, 117, 115>>

getUserIdFromApiKey_NoGuard(apiKey) == SubSeq(Sha256Hex(apiKey), 1, UserIdLen)

getUserIdFromApiKey(apiKey) ==
    IF apiKey = <<>> THEN Anonymous
    ELSE SubSeq(Sha256Hex(apiKey), 1, UserIdLen)

\* ---------------------------------------------------------------- keys
getHistoryFileKey(userId) == <<"history", userId, <<>>, "history.json">>

getImageKey_Shared(userId, imageId) == <<"images", "A", <<imageId>>, ".jpg">>

getImageKey(userId, imageId) == <<"images", userId, <<imageId>>, ".jpg">>

getThumbnailKey(userId, imageId) == <<"images", userId, <<imageId>>, "_thumb.jpg">>

getInputImageKey_NoUser(userId, imageHash, ext) ==
    <<"inputs", "", imageHash, "." \o ext>>

getInputImageKey(userId, imageHash, ext) ==
    <<"inputs", userId, imageHash, "." \o ext>>

\* imageKey.replace(/\.jpg$/i, '_thumb.jpg') on the suffixes keys carry.
getThumbnailKeyFromImageKey(imageKey) ==
    LET sfx == imageKey[4]
        out == CASE sfx \in {".jpg", ".JPG"} -> "_thumb.jpg"
                 [] sfx = "_thumb.jpg" -> "_thumb_thumb.jpg"
                 [] OTHER -> sfx
    IN  <<imageKey[1], imageKey[2], imageKey[3], out>>

\* ------------------------------------------------------- image data
\* A data URI is [mime, text]: the MIME type of its `data:<mime>;base64,`
\* prefix ("" when it has no prefix) and its base64 text.  The words
\* `data:` and `;base64,` of a prefix are in lower case, the spelling both
\* regular expressions of parseImageData match; the MIME type is in any case.
Mimes == {"image/png", "IMAGE/PNG", "image/webp", "image/gif",
          "image/jpeg", "image/jpg", "image/bmp"}

ToLowerCase(mimeType) == IF mimeType = "IMAGE/PNG" THEN "image/png" ELSE mimeType

\* Buffer.from(base64Data, 'base64'): four sextets make three bytes; a
\* trailing group of two or three sextets makes one or two bytes, its unused
\* low bits being dropped.
RECURSIVE Base64Decode(_)
Base64Decode(t) ==
    IF Len(t) < 2 THEN <<>>
    ELSE LET b1 == t[1] * 4 + (t[2] \div 16)
         IN  IF Len(t) = 2 THEN <<b1>>
             ELSE LET b2 == (t[2] % 16) * 16 + (t[3] \div 4)
                  IN  IF Len(t) = 3 THEN <<b1, b2>>
                      ELSE <<b1, b2, (t[3] % 4) * 64 + t[4]>>
                           \o Base64Decode(SubSeq(t, 5, Len(t)))

parseImageData(imageData, fallbackMimeType) ==
    [buffer |-> Base64Decode(imageData.text),
     mimeType |-> IF imageData.mime # "" THEN imageData.mime ELSE fallbackMimeType]

getExtensionFromMimeType(mimeType) ==
    CASE ToLowerCase(mimeType) = "image/png" -> "png"
      [] ToLowerCase(mimeType) = "image/webp" -> "webp"
      [] ToLowerCase(mimeType) = "image/gif" -> "gif"
      [] OTHER -> "jpg"

\* The key uploadInputImageWithDedup computes before it touches the store.
InputImageKeyOf_RawMime(imageData, userId, fallbackMimeType) ==
    LET parsed == parseImageData(imageData, fallbackMimeType)
    IN  getInputImageKey(userId, Sha256Hex(parsed.buffer), parsed.mimeType)

InputImageKeyOf_Text(imageData, userId, fallbackMimeType) ==
    LET parsed == parseImageData(imageData, fallbackMimeType)
    IN  getInputImageKey(userId, Sha256Hex(imageData.text),
                         getExtensionFromMimeType(parsed.mimeType))

InputImageKeyOf(imageData, userId, fallbackMimeType) ==
    LET parsed == parseImageData(imageData, fallbackMimeType)
    IN  getInputImageKey(userId, Sha256Hex(parsed.buffer),
                         getExtensionFromMimeType(parsed.mimeType))

\* ---------------------------------------------------------- history items
\* An item carries the fields the ledger reads: id, imageKey and the
\* optional inputImageKey / inputImageKeys.
OptionalFields == {"inputImageKey", "inputImageKeys"}

\* item.f: a property the object does not have reads as undefined.
Prop(item, f) == IF f \in DOMAIN item THEN item[f] ELSE Undefined

\* The item POST builds from the keys of the stored reference images.
MakeHistoryItem_Last(id, imageKey, inputImageKeys) ==
    [id |-> id,
     imageKey |-> imageKey,
     inputImageKey |-> IF Len(inputImageKeys) > 0
                       THEN inputImageKeys[Len(inputImageKeys)] ELSE Undefined,
     inputImageKeys |-> IF Len(inputImageKeys) > 0 THEN inputImageKeys ELSE Undefined]

MakeHistoryItem(id, imageKey, inputImageKeys) ==
    [id |-> id,
     imageKey |-> imageKey,
     inputImageKey |-> IF Len(inputImageKeys) > 0 THEN inputImageKeys[1] ELSE Undefined,
     inputImageKeys |-> IF Len(inputImageKeys) > 0 THEN inputImageKeys ELSE Undefined]

\* JSON.stringify drops the properties whose value is undefined; JSON.parse
\* of that text yields objects with the remaining properties.
StringifyItem_DropOptional(item) == [f \in DOMAIN item \ OptionalFields |-> item[f]]

StringifyItem(item) ==
    [f \in {g \in DOMAIN item : g \in OptionalFields => item[g] # Undefined} |-> item[f]]

JSONstringify(history) == [i \in 1..Len(history) |-> StringifyItem(history[i])]

JSONparse(body) == body

\* Two item sequences a reader cannot tell apart.
SameItem(a, b) ==
    /\ a.id = b.id
    /\ a.imageKey = b.imageKey
    /\ \A f \in OptionalFields : Prop(a, f) = Prop(b, f)

Equivalent(h1, h2) ==
    /\ Len(h1) = Len(h2)
    /\ \A i \in 1..Len(h1) : SameItem(h1[i], h2[i])

Ids(history) == {history[i].id : i \in 1..Len(history)}

\* ------------------------------------------------------------ object store
PutObject(st, key, body, contentType) ==
    [k \in DOMAIN st \cup {key} |->
        IF k = key THEN [body |-> body, contentType |-> contentType] ELSE st[k]]

DeleteObject(st, key) == [k \in DOMAIN st \ {key} |-> st[k]]

EmptyStore == <<>>

\* The ledger a store holds for a user (no document: the empty ledger).
Ledger(st, userId) ==
    IF getHistoryFileKey(userId) \in DOMAIN st
    THEN JSONparse(st[getHistoryFileKey(userId)].body)
    ELSE <<>>

\* ------------------------------------------------------------------ state
VARIABLES
    store,      \* the bucket: key -> [body, contentType]
    pc,         \* per request slot: where its handler stands
    req,        \* per request slot: the call and its arguments
    loc,        \* per request slot: the handler's locals
    ret,        \* per request slot: what the call returned (or that it threw)
    nextId,     \* the next item id the caller generates
    idLimit,    \* ids a run generates
    reqLimit,   \* requests a run starts (0: any number)
    started,    \* requests started so far, counted when reqLimit bounds them
    faults,     \* storage requests that may still fail in this run
    store0,     \* history: the bucket when the request in the slot began
    issued,     \* history: keys the request sent a DeleteObject for
    missed,     \* history: ledger changes saved by others since the slot loaded
    lastWriter, \* history: per user, the slot whose save wrote the ledger last
    prev,       \* history: the request completed last
    pin,        \* inputs of the pure functions under check
    pout,       \* their results
    ops,        \* history: per slot, the storage requests of the call in the slot
    config,     \* the storage settings the environment defines
    http        \* per request slot: the route handler running in the slot

procVars == <<pc, req, loc, ret>>
histVars == <<store0, issued, missed, lastWriter, prev>>
pureVars == <<pin, pout>>
httpVars == <<config, http>>
vars == <<store, pc, req, loc, ret, nextId, idLimit, reqLimit, started, faults,
          histVars, pureVars, ops, httpVars>>

NoItem == [id |-> 0]
NoData == [mime |-> "", text |-> <<>>]

NoReq == [kind |-> "none", userId |-> "", item |-> NoItem, id |-> 0,
          imageData |-> NoData, fallbackMimeType |-> "", history |-> <<>>]

NoLoc == [history |-> <<>>, saved |-> <<>>, exists |-> FALSE]

\* status: "none" while the call runs, then "returned" or "thrown"; ok is the
\* boolean a ledger call returns, reused the flag storeInputImage returns,
\* history the sequence load returns.
NoRet == [status |-> "none", ok |-> FALSE, reused |-> FALSE, history |-> <<>>]

NoPrev == [req |-> NoReq, ret |-> NoRet, pre |-> {}]

\* What a storage request can answer: it fails only while the run's budget
\* of failures lasts.
Outcomes == IF faults > 0 THEN {"ok", "error"} ELSE {"ok"}

Spend(o) == faults' = IF o = "error" THEN faults - 1 ELSE faults

\* s3Client.send of one command by the call in slot p, and how it ended.
Send(p, op, key, o) ==
    /\ Spend(o)
    /\ ops' = [ops EXCEPT ![p] = Append(ops[p], <<op, key, o>>)]

Begin(p, r) ==
    /\ pc[p] = "idle"
    /\ reqLimit = 0 \/ started < reqLimit
    /\ started' = IF reqLimit = 0 THEN started ELSE started + 1
    /\ req' = [req EXCEPT ![p] = r]
    /\ loc' = [loc EXCEPT ![p] = NoLoc]
    /\ ret' = [ret EXCEPT ![p] = NoRet]
    /\ store0' = [store0 EXCEPT ![p] = store]
    /\ issued' = [issued EXCEPT ![p] = {}]
    /\ missed' = [missed EXCEPT ![p] = {}]
    /\ ops' = [ops EXCEPT ![p] = <<>>]
    /\ UNCHANGED <<store, faults, lastWriter, prev, idLimit, reqLimit, pin, pout, httpVars>>

\* loadHistory: the parsed document; [] when the document is missing
\* (NoSuchKey) or the read fails.
loadHistory_Stale(st, userId, o) ==
    IF getHistoryFileKey(userId) \notin DOMAIN st THEN <<>>
    ELSE JSONparse(st[getHistoryFileKey(userId)].body)

loadHistory(st, userId, o) ==
    IF o = "error" THEN <<>>
    ELSE IF getHistoryFileKey(userId) \notin DOMAIN st THEN <<>>
    ELSE JSONparse(st[getHistoryFileKey(userId)].body)

\* The slots that hold a loaded copy of the user's ledger they have yet to save.
Loaded(u) ==
    {q \in Procs : req[q].userId = u
                   /\ pc[q] \in {"add_save", "del_image", "del_thumb", "del_input", "del_save"}}

saveHistory_CAS(p, history, o, change) ==
    LET u == req[p].userId
        fresh == o = "ok" /\ missed[p] = {}
    IN  /\ store' = IF fresh
                    THEN PutObject(store, getHistoryFileKey(u),
                                   JSONstringify(history), "application/json")
                    ELSE store
        /\ ret' = [ret EXCEPT ![p] = [NoRet EXCEPT !.status = "returned", !.ok = fresh]]
        /\ loc' = [loc EXCEPT ![p].saved = history]
        /\ missed' = IF fresh
                     THEN [q \in Procs |->
                             IF q # p /\ q \in Loaded(u) THEN missed[q] \cup {change}
                             ELSE missed[q]]
                     ELSE missed
        /\ lastWriter' = IF fresh THEN [lastWriter EXCEPT ![u] = p] ELSE lastWriter
        /\ Send(p, "put", getHistoryFileKey(u), o)

\* saveHistory(userId, history) as the last step of the request in slot p:
\* one PutObject of the serialized array; true when it succeeds, false when
\* it fails.  `change` names what the caller changed, for the history of
\* lost updates.
saveHistory(p, history, o, change) ==
    LET u == req[p].userId
    IN  /\ store' = IF o = "ok"
                    THEN PutObject(store, getHistoryFileKey(u),
                                   JSONstringify(history), "application/json")
                    ELSE store
        /\ ret' = [ret EXCEPT ![p] = [NoRet EXCEPT !.status = "returned", !.ok = (o = "ok")]]
        /\ loc' = [loc EXCEPT ![p].saved = history]
        /\ missed' = IF o = "ok"
                     THEN [q \in Procs |->
                             IF q # p /\ q \in Loaded(u) THEN missed[q] \cup {change}
                             ELSE missed[q]]
                     ELSE missed
        /\ lastWriter' = IF o = "ok" THEN [lastWriter EXCEPT ![u] = p] ELSE lastWriter
        /\ Send(p, "put", getHistoryFileKey(u), o)

\* ---------------------------------------------------------------- addItem
\* history.unshift(item); history.slice(0, 100)
AddedHistory_Push(history, item) ==
    SubSeq(history \o <<item>>, 1, Min(Len(history) + 1, HistoryCap))

AddedHistory_NoCap(history, item) == <<item>> \o history

AddedHistory(history, item) ==
    SubSeq(<<item>> \o history, 1, Min(Len(history) + 1, HistoryCap))

\* The caller makes the item: a fresh id, the output key of that id, and the
\* keys of its reference images.
StartAdd(p, u, keys) ==
    /\ nextId <= idLimit
    /\ Begin(p, [NoReq EXCEPT !.kind = "add", !.userId = u,
                              !.item = MakeHistoryItem(nextId, getImageKey(u, nextId), keys)])
    /\ pc' = [pc EXCEPT ![p] = "add_load"]
    /\ nextId' = nextId + 1

AddLoad(p) ==
    /\ pc[p] = "add_load"
    /\ \E o \in Outcomes :
        /\ loc' = [loc EXCEPT ![p].history = loadHistory(store, req[p].userId, o)]
        /\ Send(p, "get", getHistoryFileKey(req[p].userId), o)
    /\ pc' = [pc EXCEPT ![p] = "add_save"]
    /\ UNCHANGED <<store, req, ret, nextId, idLimit, reqLimit, started, histVars, pureVars, httpVars>>

AddSave(p) ==
    /\ pc[p] = "add_save"
    /\ \E o \in Outcomes :
        saveHistory(p, AddedHistory(loc[p].history, req[p].item), o,
                    <<"add", req[p].item.id>>)
    /\ pc' = [pc EXCEPT ![p] = "done"]
    /\ UNCHANGED <<req, nextId, idLimit, reqLimit, started, store0, issued, prev, pureVars, httpVars>>

\* ------------------------------------------------------------- deleteItem
\* history.find(h => h.id === id)
HasItem(history, id) == \E i \in 1..Len(history) : history[i].id = id

FindItem(history, id) ==
    IF HasItem(history, id)
    THEN history[CHOOSE i \in 1..Len(history) :
                    /\ history[i].id = id
                    /\ \A j \in 1..(i - 1) : history[j].id # id]
    ELSE NoItem

\* history.some(h => h.id !== id && h.inputImageKey === item.inputImageKey)
StillReferenced_Never(history, id, key) == FALSE

StillReferenced(history, id, key) ==
    \E i \in 1..Len(history) :
        history[i].id # id /\ Prop(history[i], "inputImageKey") = key

\* history.filter(h => h.id !== id)
WithoutId(history, id) ==
    LET Keep(h) == h.id # id
    IN  SelectSeq(history, Keep)

\* deleteImage(key): one DeleteObject; its failure is swallowed.
deleteImage(p, key, o) ==
    /\ store' = IF o = "ok" THEN DeleteObject(store, key) ELSE store
    /\ issued' = [issued EXCEPT ![p] = issued[p] \cup {key}]
    /\ Send(p, "delete", key, o)

StartDelete(p, u, id) ==
    /\ Begin(p, [NoReq EXCEPT !.kind = "delete", !.userId = u, !.id = id])
    /\ pc' = [pc EXCEPT ![p] = "del_load"]
    /\ UNCHANGED nextId

\* const history = await loadHistory(userId); no item with the id: return false.
DelLoad_Blind(p) ==
    /\ pc[p] = "del_load"
    /\ \E o \in Outcomes :
        /\ loc' = [loc EXCEPT ![p].history = loadHistory(store, req[p].userId, o)]
        /\ Send(p, "get", getHistoryFileKey(req[p].userId), o)
    /\ pc' = [pc EXCEPT ![p] = "del_save"]
    /\ UNCHANGED ret
    /\ UNCHANGED <<store, req, nextId, idLimit, reqLimit, started, histVars, pureVars, httpVars>>

DelLoad(p) ==
    /\ pc[p] = "del_load"
    /\ \E o \in Outcomes :
        LET history == loadHistory(store, req[p].userId, o)
        IN  /\ loc' = [loc EXCEPT ![p].history = history]
            /\ Send(p, "get", getHistoryFileKey(req[p].userId), o)
            /\ IF HasItem(history, req[p].id)
               THEN /\ pc' = [pc EXCEPT ![p] = "del_image"]
                    /\ UNCHANGED ret
               ELSE /\ pc' = [pc EXCEPT ![p] = "done"]
                    /\ ret' = [ret EXCEPT ![p] = [NoRet EXCEPT !.status = "returned",
                                                               !.ok = FALSE]]
    /\ UNCHANGED <<store, req, nextId, idLimit, reqLimit, started, histVars, pureVars, httpVars>>

DelImage_Abort(p) ==
    /\ pc[p] = "del_image"
    /\ \E o \in Outcomes :
        /\ deleteImage(p, FindItem(loc[p].history, req[p].id).imageKey, o)
        /\ IF o = "ok"
           THEN pc' = [pc EXCEPT ![p] = "del_thumb"] /\ UNCHANGED ret
           ELSE /\ pc' = [pc EXCEPT ![p] = "done"]
                /\ ret' = [ret EXCEPT ![p] = [NoRet EXCEPT !.status = "returned"]]
    /\ UNCHANGED <<req, loc, nextId, idLimit, reqLimit, started, store0, missed, lastWriter, prev, pureVars, httpVars>>

DelImage(p) ==
    /\ pc[p] = "del_image"
    /\ \E o \in Outcomes :
        deleteImage(p, FindItem(loc[p].history, req[p].id).imageKey, o)
    /\ pc' = [pc EXCEPT ![p] = "del_thumb"]
    /\ UNCHANGED <<req, loc, ret, nextId, idLimit, reqLimit, started, store0, missed, lastWriter, prev, pureVars, httpVars>>

DelThumb(p) ==
    /\ pc[p] = "del_thumb"
    /\ \E o \in Outcomes :
        deleteImage(p, getThumbnailKeyFromImageKey(
                           FindItem(loc[p].history, req[p].id).imageKey), o)
    /\ pc' = [pc EXCEPT ![p] = "del_input"]
    /\ UNCHANGED <<req, loc, ret, nextId, idLimit, reqLimit, started, store0, missed, lastWriter, prev, pureVars, httpVars>>

\* The reference image goes only when no other item of the loaded history
\* has it as its inputImageKey.
DelInput(p) ==
    /\ pc[p] = "del_input"
    /\ LET key == Prop(FindItem(loc[p].history, req[p].id), "inputImageKey")
       IN  IF key # Undefined /\ ~StillReferenced(loc[p].history, req[p].id, key)
           THEN \E o \in Outcomes : deleteImage(p, key, o)
           ELSE UNCHANGED <<store, issued, faults, ops>>
    /\ pc' = [pc EXCEPT ![p] = "del_save"]
    /\ UNCHANGED <<req, loc, ret, nextId, idLimit, reqLimit, started, store0, missed, lastWriter, prev, pureVars, httpVars>>

DelSave_Rollback(p) ==
    /\ pc[p] = "del_save"
    /\ \E o \in Outcomes :
        IF o = "ok"
        THEN saveHistory(p, WithoutId(loc[p].history, req[p].id), o, <<"delete", req[p].id>>)
        ELSE /\ store' = store0[p]
             /\ ret' = [ret EXCEPT ![p] = [NoRet EXCEPT !.status = "returned"]]
             /\ Send(p, "put", getHistoryFileKey(req[p].userId), o)
             /\ UNCHANGED <<loc, missed, lastWriter>>
    /\ pc' = [pc EXCEPT ![p] = "done"]
    /\ UNCHANGED <<req, nextId, idLimit, reqLimit, started, store0, issued, prev, pureVars, httpVars>>

DelSave(p) ==
    /\ pc[p] = "del_save"
    /\ \E o \in Outcomes :
        saveHistory(p, WithoutId(loc[p].history, req[p].id), o, <<"delete", req[p].id>>)
    /\ pc' = [pc EXCEPT ![p] = "done"]
    /\ UNCHANGED <<req, nextId, idLimit, reqLimit, started, store0, issued, prev, pureVars, httpVars>>

\* ------------------------------------------------------- storeInputImage
\* doesObjectExist: true on a HeadObject that succeeds; NotFound and every
\* other failure read as false.
doesObjectExist_Never(st, key, o) == FALSE

doesObjectExist_Oracle(st, key, o) == key \in DOMAIN st

doesObjectExist(st, key, o) == o = "ok" /\ key \in DOMAIN st

StartStore(p, u, imageData, fallbackMimeType) ==
    /\ Begin(p, [NoReq EXCEPT !.kind = "store", !.userId = u, !.imageData = imageData,
                              !.fallbackMimeType = fallbackMimeType])
    /\ pc' = [pc EXCEPT ![p] = "st_head"]
    /\ UNCHANGED nextId

ReqImageKey(r) == InputImageKeyOf(r.imageData, r.userId, r.fallbackMimeType)

StHead(p) ==
    /\ pc[p] = "st_head"
    /\ \E o \in Outcomes :
        LET exists == doesObjectExist(store, ReqImageKey(req[p]), o)
        IN  /\ loc' = [loc EXCEPT ![p].exists = exists]
            /\ Send(p, "head", ReqImageKey(req[p]), o)
            /\ IF exists
               THEN /\ pc' = [pc EXCEPT ![p] = "done"]
                    /\ ret' = [ret EXCEPT ![p] = [NoRet EXCEPT !.status = "returned",
                                                               !.reused = TRUE]]
               ELSE /\ pc' = [pc EXCEPT ![p] = "st_put"]
                    /\ UNCHANGED ret
    /\ UNCHANGED <<store, req, nextId, idLimit, reqLimit, started, histVars, pureVars, httpVars>>

\* The PutObject is not guarded: when it fails the call throws.
StPut(p) ==
    /\ pc[p] = "st_put"
    /\ \E o \in Outcomes :
        LET parsed == parseImageData(req[p].imageData, req[p].fallbackMimeType)
        IN  /\ store' = IF o = "ok"
                        THEN PutObject(store, ReqImageKey(req[p]), parsed.buffer,
                                       parsed.mimeType)
                        ELSE store
            /\ ret' = [ret EXCEPT ![p] =
                         [NoRet EXCEPT !.status = IF o = "ok" THEN "returned" ELSE "thrown",
                                       !.reused = loc[p].exists]]
            /\ Send(p, "put", ReqImageKey(req[p]), o)
    /\ pc' = [pc EXCEPT ![p] = "done"]
    /\ UNCHANGED <<req, loc, nextId, idLimit, reqLimit, started, histVars, pureVars, httpVars>>

\* ------------------------------------------------------------ save, load
StartSave(p, u, history) ==
    /\ Begin(p, [NoReq EXCEPT !.kind = "save", !.userId = u, !.history = history])
    /\ pc' = [pc EXCEPT ![p] = "sv_put"]
    /\ UNCHANGED nextId

SvPut(p) ==
    /\ pc[p] = "sv_put"
    /\ \E o \in Outcomes : saveHistory(p, req[p].history, o, <<"save", 0>>)
    /\ pc' = [pc EXCEPT ![p] = "done"]
    /\ UNCHANGED <<req, nextId, idLimit, reqLimit, started, store0, issued, prev, pureVars, httpVars>>

StartLoad(p, u) ==
    /\ Begin(p, [NoReq EXCEPT !.kind = "load", !.userId = u])
    /\ pc' = [pc EXCEPT ![p] = "ld_get"]
    /\ UNCHANGED nextId

LdGet(p) ==
    /\ pc[p] = "ld_get"
    /\ \E o \in Outcomes :
        /\ ret' = [ret EXCEPT ![p] =
                     [NoRet EXCEPT !.status = "returned",
                                   !.history = loadHistory(store, req[p].userId, o)]]
        /\ Send(p, "get", getHistoryFileKey(req[p].userId), o)
    /\ pc' = [pc EXCEPT ![p] = "done"]
    /\ UNCHANGED <<store, req, loc, nextId, idLimit, reqLimit, started, histVars, pureVars, httpVars>>

\* The call has returned to its caller; the slot is free for the next request.
\* The history keeps a store or save call for the call that follows it.
Return(p) ==
    /\ pc[p] = "done"
    /\ pc' = [pc EXCEPT ![p] = "idle"]
    /\ prev' = IF req[p].kind \in {"store", "save"}
               THEN [req |-> req[p], ret |-> ret[p], pre |-> DOMAIN store0[p]]
               ELSE NoPrev
    /\ req' = [req EXCEPT ![p] = NoReq]
    /\ loc' = [loc EXCEPT ![p] = NoLoc]
    /\ ret' = [ret EXCEPT ![p] = NoRet]
    /\ store0' = [store0 EXCEPT ![p] = EmptyStore]
    /\ issued' = [issued EXCEPT ![p] = {}]
    /\ missed' = [missed EXCEPT ![p] = {}]
    /\ ops' = [ops EXCEPT ![p] = <<>>]
    /\ UNCHANGED <<store, nextId, idLimit, reqLimit, started, faults, lastWriter, pureVars, httpVars>>

\* ------------------------------------------------------------ requests
\* Reference images the requests upload: a PNG with a prefix, and an
\* unprefixed payload that takes the fallback type.
RefData == {[mime |-> "image/png", text |-> <<16, 16>>],
            [mime |-> "", text |-> <<16, 32>>]}

\* The first of them again, in a non-canonical base64 spelling of the same byte.
RefAlias == [mime |-> "image/png", text |-> <<16, 17>>]

RefFallback == "image/jpeg"

K1(u) == InputImageKeyOf([mime |-> "image/png", text |-> <<16, 16>>], u, RefFallback)
K2(u) == InputImageKeyOf([mime |-> "", text |-> <<16, 32>>], u, RefFallback)

\* The reference-image key lists of the items added: none, one image, two.
ItemKeyLists(u) == {<<>>, <<K1(u)>>, <<K2(u), K1(u)>>}

\* Sequences handed to save: items as POST builds them, undefined fields and all.
SaveChoices(u) ==
    {<<>>,
     <<MakeHistoryItem(1, getImageKey(u, 1), <<>>)>>,
     <<MakeHistoryItem(2, getImageKey(u, 2), <<K1(u)>>),
       MakeHistoryItem(1, getImageKey(u, 1), <<>>)>>}

NoPin == [kind |-> "none", c1 |-> <<>>, c2 |-> <<>>, userId |-> "",
          d1 |-> NoData, f1 |-> "", d2 |-> NoData, f2 |-> ""]
NoOut == [done |-> FALSE, ids |-> <<>>, keys |-> <<>>]

\* R2_ACCOUNT_ID, R2_ACCESS_KEY_ID, R2_SECRET_ACCESS_KEY, R2_BUCKET_NAME: the
\* settings isR2Configured asks for; config is the set of those that are
\* defined and not empty.
Settings == {"R2_ACCOUNT_ID", "R2_ACCESS_KEY_ID", "R2_SECRET_ACCESS_KEY", "R2_BUCKET_NAME"}

isR2Configured_Any == \E x \in Settings : x \in config

isR2Configured == \A x \in Settings : x \in config

\* The body of a POST; a field the body does not have is the empty string
\* (NoData for a data URI) or the empty list.
NoBody == [imageData |-> NoData, prompt |-> "", thumbnailData |-> NoData,
           mode |-> "", inputImageData |-> NoData, inputImageMimeType |-> "",
           inputImagesData |-> <<>>]

\* A route handler in a slot: the request (kind, userId, body, the id or key
\* parameter), the handler's position and locals, the calls of the store
\* layer that threw, the storage requests sent so far, and the response
\* (code 0: none yet).
NoHttp == [kind |-> "none", stage |-> "none", userId |-> "", body |-> NoBody,
           id |-> 0, key |-> Undefined, imageKey |-> Undefined,
           images |-> <<>>, keys |-> <<>>, item |-> NoItem,
           thrown |-> {}, sent |-> <<>>,
           code |-> 0, success |-> FALSE, bytes |-> <<>>, history |-> <<>>]

InitWith(f, lim, reqs) ==
    /\ store = EmptyStore
    /\ pc = [p \in Procs |-> "idle"]
    /\ req = [p \in Procs |-> NoReq]
    /\ loc = [p \in Procs |-> NoLoc]
    /\ ret = [p \in Procs |-> NoRet]
    /\ nextId = 1
    /\ idLimit = lim
    /\ reqLimit = reqs
    /\ started = 0
    /\ faults = f
    /\ store0 = [p \in Procs |-> EmptyStore]
    /\ issued = [p \in Procs |-> {}]
    /\ missed = [p \in Procs |-> {}]
    /\ lastWriter = [u \in Users |-> 0]
    /\ prev = NoPrev
    /\ pin = NoPin
    /\ pout = NoOut
    /\ ops = [p \in Procs |-> <<>>]
    /\ config = Settings
    /\ http = [p \in Procs |-> NoHttp]

\* ------------------------------------------------------- route handlers
\* NextResponse.json(..., { status }) / new NextResponse(bytes): the handler
\* has answered.
Respond(h, code, success) ==
    [h EXCEPT !.stage = "responded", !.code = code, !.success = success]

\* A call of the ledger or store layer has returned to the handler in slot p.
CalleeDone(p) ==
    /\ pc' = [pc EXCEPT ![p] = "idle"]
    /\ req' = [req EXCEPT ![p] = NoReq]
    /\ loc' = [loc EXCEPT ![p] = NoLoc]
    /\ ret' = [ret EXCEPT ![p] = NoRet]
    /\ store0' = [store0 EXCEPT ![p] = EmptyStore]
    /\ issued' = [issued EXCEPT ![p] = {}]
    /\ missed' = [missed EXCEPT ![p] = {}]
    /\ ops' = [ops EXCEPT ![p] = <<>>]
    /\ UNCHANGED <<store, nextId, idLimit, reqLimit, started, faults, lastWriter, prev,
                   pureVars, config>>

\* A request arrives at a free slot.
Arrive(p, h) ==
    /\ pc[p] = "idle"
    /\ http[p].kind = "none"
    /\ http' = [http EXCEPT ![p] = h]
    /\ UNCHANGED <<store, procVars, idLimit, reqLimit, started, faults, histVars,
                   pureVars, ops, config>>

\* POST /api/history up to the id: 500 without the storage settings, 400
\* without imageData or prompt.  The id is `${Date.now()}_${random}`: a
\* string no request drew before (nextId), or one drawn before.
PostStart(p, u, body) ==
    LET h == [NoHttp EXCEPT !.kind = "post", !.userId = u, !.body = body]
    IN  IF ~isR2Configured
        THEN Arrive(p, Respond(h, 500, FALSE)) /\ UNCHANGED nextId
        ELSE IF body.imageData = NoData \/ body.prompt = ""
        THEN Arrive(p, Respond(h, 400, FALSE)) /\ UNCHANGED nextId
        ELSE /\ nextId <= idLimit
             /\ \E id \in 1..nextId : Arrive(p, [h EXCEPT !.id = id, !.stage = "image"])
             /\ nextId' = nextId + 1

\* A storage request the handler's own callee sends (uploadImage,
\* uploadThumbnail, getImage).
Sent(h, op, key, o) == [h EXCEPT !.sent = Append(h.sent, <<op, key, o>>)]

\* uploadImage(imageData, id, userId): one PutObject, not guarded; when it
\* fails the call throws and POST answers 500 from its catch.
PostImage(p) ==
    /\ http[p].kind = "post" /\ http[p].stage = "image"
    /\ \E o \in Outcomes :
        LET h == http[p]
            key == getImageKey(h.userId, h.id)
            parsed == parseImageData(h.body.imageData, "image/jpeg")
        IN  /\ store' = IF o = "ok"
                        THEN PutObject(store, key, parsed.buffer, "image/jpeg")
                        ELSE store
            /\ http' = [http EXCEPT ![p] =
                 IF o = "ok"
                 THEN [Sent(h, "put", key, o) EXCEPT !.imageKey = key, !.stage = "thumb"]
                 ELSE Respond([Sent(h, "put", key, o) EXCEPT
                                  !.thrown = h.thrown \cup {"uploadImage"}], 500, FALSE)]
            /\ Spend(o)
    /\ UNCHANGED <<procVars, nextId, idLimit, reqLimit, started, histVars, pureVars,
                   ops, config>>

\* The reference images POST stores: those of inputImagesData, else the one
\* of inputImageData, and none unless the mode is img2img or outpaint.
ImagesToUpload(body) ==
    IF body.mode \in {"img2img", "outpaint"}
    THEN IF Len(body.inputImagesData) > 0 THEN body.inputImagesData
         ELSE IF body.inputImageData # NoData THEN <<body.inputImageData>>
         ELSE <<>>
    ELSE <<>>

\* uploadThumbnail, when the body has thumbnailData: one PutObject; POST
\* catches its failure and goes on.
PostThumb_Abort(p) ==
    /\ http[p].kind = "post" /\ http[p].stage = "thumb"
    /\ LET h == http[p]
           key == getThumbnailKey(h.userId, h.id)
           next == [h EXCEPT !.stage = "inputs", !.images = ImagesToUpload(h.body)]
       IN  IF h.body.thumbnailData # NoData
           THEN \E o \in Outcomes :
                /\ store' = IF o = "ok"
                            THEN PutObject(store, key,
                                     parseImageData(h.body.thumbnailData, "image/jpeg").buffer,
                                     "image/jpeg")
                            ELSE store
                /\ http' = [http EXCEPT ![p] =
                     IF o = "ok" THEN Sent(next, "put", key, o)
                     ELSE Respond([Sent(h, "put", key, o) EXCEPT
                                      !.thrown = h.thrown \cup {"uploadThumbnail"}],
                                  500, FALSE)]
                /\ Spend(o)
           ELSE /\ http' = [http EXCEPT ![p] = next]
                /\ UNCHANGED <<store, faults>>
    /\ UNCHANGED <<procVars, nextId, idLimit, reqLimit, started, histVars, pureVars,
                   ops, config>>

PostThumb(p) ==
    /\ http[p].kind = "post" /\ http[p].stage = "thumb"
    /\ LET h == http[p]
           key == getThumbnailKey(h.userId, h.id)
           next == [h EXCEPT !.stage = "inputs", !.images = ImagesToUpload(h.body)]
       IN  IF h.body.thumbnailData # NoData
           THEN \E o \in Outcomes :
                /\ store' = IF o = "ok"
                            THEN PutObject(store, key,
                                     parseImageData(h.body.thumbnailData, "image/jpeg").buffer,
                                     "image/jpeg")
                            ELSE store
                /\ http' = [http EXCEPT ![p] =
                     [Sent(next, "put", key, o) EXCEPT
                         !.thrown = IF o = "ok" THEN h.thrown
                                    ELSE h.thrown \cup {"uploadThumbnail"}]]
                /\ Spend(o)
           ELSE /\ http' = [http EXCEPT ![p] = next]
                /\ UNCHANGED <<store, faults>>
    /\ UNCHANGED <<procVars, nextId, idLimit, reqLimit, started, histVars, pureVars,
                   ops, config>>

\* inputImageMimeType || 'image/jpeg'
FallbackOf(body) ==
    IF body.inputImageMimeType # "" THEN body.inputImageMimeType ELSE "image/jpeg"

\* for (const imgData of imagesToUpload): uploadInputImageWithDedup(imgData, ...)
PostCallStore(p) ==
    /\ http[p].kind = "post" /\ http[p].stage = "inputs"
    /\ http[p].images # <<>>
    /\ StartStore(p, http[p].userId, Head(http[p].images), FallbackOf(http[p].body))

\* The call returned (its key is pushed) or threw (caught, no key).
PostStoreReturn(p) ==
    /\ http[p].kind = "post" /\ http[p].stage = "inputs"
    /\ pc[p] = "done" /\ req[p].kind = "store"
    /\ http' = [http EXCEPT ![p] =
         [@ EXCEPT !.images = Tail(@),
                   !.keys = IF ret[p].status = "returned"
                            THEN Append(@, ReqImageKey(req[p])) ELSE @,
                   !.thrown = IF ret[p].status = "thrown"
                              THEN @ \cup {"uploadInputImageWithDedup"} ELSE @,
                   !.sent = @ \o ops[p]]]
    /\ CalleeDone(p)

\* historyItem = {id, imageKey, inputImageKey: inputImageKeys[0],
\* inputImageKeys: ... }; addHistoryItem(userId, historyItem)
PostCallAdd(p) ==
    /\ http[p].kind = "post" /\ http[p].stage = "inputs"
    /\ http[p].images = <<>>
    /\ Begin(p, [NoReq EXCEPT !.kind = "add", !.userId = http[p].userId,
                              !.item = MakeHistoryItem(http[p].id, http[p].imageKey,
                                                       http[p].keys)])
    /\ pc' = [pc EXCEPT ![p] = "add_load"]
    /\ UNCHANGED nextId

\* success ? 200 with the item : 500
PostAddReturn(p) ==
    /\ http[p].kind = "post" /\ http[p].stage = "inputs"
    /\ pc[p] = "done" /\ req[p].kind = "add"
    /\ http' = [http EXCEPT ![p] =
         Respond([@ EXCEPT !.item = req[p].item, !.sent = @ \o ops[p]],
                 IF ret[p].ok THEN 200 ELSE 500, ret[p].ok)]
    /\ CalleeDone(p)

\* DELETE /api/history?id=: 500 without the storage settings, 400 without an
\* id (0 stands for the missing parameter).
DeleteStart(p, u, id) ==
    LET h == [NoHttp EXCEPT !.kind = "delete", !.userId = u, !.id = id]
    IN  /\ Arrive(p, IF ~isR2Configured THEN Respond(h, 500, FALSE)
                     ELSE IF id = 0 THEN Respond(h, 400, FALSE)
                     ELSE [h EXCEPT !.stage = "call"])
        /\ UNCHANGED nextId

DeleteCall(p) ==
    /\ http[p].kind = "delete" /\ http[p].stage = "call"
    /\ StartDelete(p, http[p].userId, http[p].id)

DeleteReturn(p) ==
    /\ http[p].kind = "delete" /\ http[p].stage = "call"
    /\ pc[p] = "done" /\ req[p].kind = "delete"
    /\ http' = [http EXCEPT ![p] =
         Respond([@ EXCEPT !.sent = @ \o ops[p]], IF ret[p].ok THEN 200 ELSE 500, ret[p].ok)]
    /\ CalleeDone(p)

\* GET /api/history: 500 without the storage settings, else the loaded
\* history.
HistoryStart(p, u) ==
    LET h == [NoHttp EXCEPT !.kind = "history", !.userId = u]
    IN  /\ Arrive(p, IF ~isR2Configured THEN Respond(h, 500, FALSE)
                     ELSE [h EXCEPT !.stage = "call"])
        /\ UNCHANGED nextId

HistoryCall(p) ==
    /\ http[p].kind = "history" /\ http[p].stage = "call"
    /\ StartLoad(p, http[p].userId)

HistoryReturn(p) ==
    /\ http[p].kind = "history" /\ http[p].stage = "call"
    /\ pc[p] = "done" /\ req[p].kind = "load"
    /\ http' = [http EXCEPT ![p] =
         Respond([@ EXCEPT !.history = ret[p].history, !.sent = @ \o ops[p]], 200, TRUE)]
    /\ CalleeDone(p)

\* GET /api/history/image?key=: 500 without the storage settings, 400 without
\* a key (Undefined stands for the missing parameter).
ImageStart(p, key) ==
    LET h == [NoHttp EXCEPT !.kind = "image", !.key = key]
    IN  /\ Arrive(p, IF ~isR2Configured THEN Respond(h, 500, FALSE)
                     ELSE IF key = Undefined THEN Respond(h, 400, FALSE)
                     ELSE [h EXCEPT !.stage = "get"])
        /\ UNCHANGED nextId

\* getImage(key): <<bytes>>, the buffer of the object's bytes; <<>>, null,
\* when the GetObject fails (no such key, or any other error).
getImage_Empty(st, key, o) ==
    IF o = "ok" THEN <<IF key \in DOMAIN st THEN st[key].body ELSE <<>>>> ELSE <<>>

getImage(st, key, o) ==
    IF o = "ok" /\ key \in DOMAIN st THEN <<st[key].body>> ELSE <<>>

\* if (!imageBuffer) 404, else the bytes (status 200).
ImageGet(p) ==
    /\ http[p].kind = "image" /\ http[p].stage = "get"
    /\ \E o \in Outcomes :
        LET h == Sent(http[p], "get", http[p].key, o)
            imageBuffer == getImage(store, h.key, o)
        IN  /\ http' = [http EXCEPT ![p] =
                 IF imageBuffer # <<>>
                 THEN Respond([h EXCEPT !.bytes = imageBuffer[1]], 200, TRUE)
                 ELSE Respond(h, 404, FALSE)]
            /\ Spend(o)
    /\ UNCHANGED <<store, procVars, nextId, idLimit, reqLimit, started, histVars,
                   pureVars, ops, config>>

\* The response has gone out; the slot is free for the next request.
HttpReturn(p) ==
    /\ http[p].stage = "responded"
    /\ http' = [http EXCEPT ![p] = NoHttp]
    /\ UNCHANGED <<store, procVars, nextId, idLimit, reqLimit, started, faults,
                   histVars, pureVars, ops, config>>

\* ------------------------------------------------------ specifications
\* Spec: one request at a time for one user, against a store whose requests
\* may fail: the ledger (addItem, deleteItem) and the user's reference images.
Init == InitWith(MaxFaults, MaxIds, 0)

Next ==
    \/ \E keys \in ItemKeyLists("A") : StartAdd(1, "A", keys)
    \/ AddLoad(1)
    \/ AddSave(1)
    \/ \E id \in 1..MaxIds : StartDelete(1, "A", id)
    \/ DelLoad(1)
    \/ DelImage(1)
    \/ DelThumb(1)
    \/ DelInput(1)
    \/ DelSave(1)
    \/ \E d \in RefData : StartStore(1, "A", d, RefFallback)
    \/ StHead(1)
    \/ StPut(1)
    \/ Return(1)

Spec == Init /\ [][Next]_vars

\* SpecStore: one storeInputImage call at a time, two users, against a
\* store whose requests may fail.
InitStore == InitWith(MaxFaults, 0, 0)

NextStore ==
    \/ \E u \in Users : \E d \in RefData : StartStore(1, u, d, RefFallback)
    \/ StHead(1)
    \/ StPut(1)
    \/ Return(1)

SpecStore == InitStore /\ [][NextStore]_vars

\* SpecReliable: one call at a time (save, load, storeInputImage), two
\* users, against a store that answers every request.
InitReliable == InitWith(0, 0, 0)

NextReliable ==
    \/ \E u \in Users : \E h \in SaveChoices(u) : StartSave(1, u, h)
    \/ SvPut(1)
    \/ \E u \in Users : StartLoad(1, u)
    \/ LdGet(1)
    \/ \E u \in Users : \E d \in RefData \cup {RefAlias} : StartStore(1, u, d, RefFallback)
    \/ StHead(1)
    \/ StPut(1)
    \/ Return(1)

SpecReliable == InitReliable /\ [][NextReliable]_vars

\* SpecCap: CapAdds addItem calls in sequence for one user, from the empty
\* ledger, against a store that answers every request.
InitCap == InitWith(0, CapAdds, 0)

NextCap ==
    \/ StartAdd(1, "A", <<>>)
    \/ AddLoad(1)
    \/ AddSave(1)
    \/ Return(1)

SpecCap == InitCap /\ [][NextCap]_vars

\* SpecConc: NumProcs requests of one user in flight at once (addItem of an
\* item with one reference image, deleteItem of an id handed out before),
\* interleaved at their storage requests, MaxReqs requests in all; the store
\* answers every request.
InitConc == InitWith(0, MaxIds, MaxReqs)

NextConc ==
    \E p \in Procs :
        \/ StartAdd(p, "A", <<K1("A")>>)
        \/ AddLoad(p)
        \/ AddSave(p)
        \/ \E id \in 1..(nextId - 1) : StartDelete(p, "A", id)
        \/ DelLoad(p)
        \/ DelImage(p)
        \/ DelThumb(p)
        \/ DelInput(p)
        \/ DelSave(p)
        \/ Return(p)

SpecConc == InitConc /\ [][NextConc]_vars

\* SpecHttp: the four route handlers, one request at a time for one user,
\* with any subset of the storage settings defined, against a store whose
\* requests may fail; POST draws MaxIds ids in all.
Ref1 == [mime |-> "image/png", text |-> <<16, 16>>]
Ref2 == [mime |-> "", text |-> <<16, 32>>]

\* The generated image ("TWFu") and its thumbnail ("TW").
OutData == [mime |-> "image/jpeg", text |-> <<19, 22, 5, 46>>]
ThumbData == [mime |-> "image/jpeg", text |-> <<19, 22>>]

\* Bodies of POST: an empty one; a text2img one that carries a reference
\* image all the same; an img2img one with a thumbnail and two reference
\* images; an outpaint one with the single inputImageData of old clients.
PostBodies ==
    LET base == [NoBody EXCEPT !.imageData = OutData, !.prompt = "p"]
    IN  {NoBody,
         [base EXCEPT !.mode = "text2img", !.inputImagesData = <<Ref1>>],
         [base EXCEPT !.mode = "img2img", !.thumbnailData = ThumbData,
                      !.inputImagesData = <<Ref1, Ref2>>],
         [base EXCEPT !.mode = "outpaint", !.inputImageData = Ref1]}

\* Keys asked of GET image: none, an output image, its thumbnail, a
\* reference image.
ImageKeys == {Undefined, getImageKey("A", 1), getThumbnailKey("A", 1), K1("A")}

InitHttp ==
    /\ store = EmptyStore
    /\ pc = [p \in Procs |-> "idle"]
    /\ req = [p \in Procs |-> NoReq]
    /\ loc = [p \in Procs |-> NoLoc]
    /\ ret = [p \in Procs |-> NoRet]
    /\ nextId = 1
    /\ idLimit = MaxIds
    /\ reqLimit = 0
    /\ started = 0
    /\ faults = MaxFaults
    /\ store0 = [p \in Procs |-> EmptyStore]
    /\ issued = [p \in Procs |-> {}]
    /\ missed = [p \in Procs |-> {}]
    /\ lastWriter = [u \in Users |-> 0]
    /\ prev = NoPrev
    /\ pin = NoPin
    /\ pout = NoOut
    /\ ops = [p \in Procs |-> <<>>]
    /\ config \in SUBSET Settings
    /\ http = [p \in Procs |-> NoHttp]

NextHttp ==
    \/ \E body \in PostBodies : PostStart(1, "A", body)
    \/ PostImage(1)
    \/ PostThumb(1)
    \/ PostCallStore(1)
    \/ StHead(1)
    \/ StPut(1)
    \/ PostStoreReturn(1)
    \/ PostCallAdd(1)
    \/ AddLoad(1)
    \/ AddSave(1)
    \/ PostAddReturn(1)
    \/ \E id \in 0..MaxIds : DeleteStart(1, "A", id)
    \/ DeleteCall(1)
    \/ DelLoad(1)
    \/ DelImage(1)
    \/ DelThumb(1)
    \/ DelInput(1)
    \/ DelSave(1)
    \/ DeleteReturn(1)
    \/ HistoryStart(1, "A")
    \/ HistoryCall(1)
    \/ LdGet(1)
    \/ HistoryReturn(1)
    \/ \E key \in ImageKeys : ImageStart(1, key)
    \/ ImageGet(1)
    \/ HttpReturn(1)

SpecHttp == InitHttp /\ [][NextHttp]_vars

\* SpecFull: two requests in flight at once, from a ledger that is full:
\* HistoryCap items of user A, as HistoryCap addItem calls leave it (ids
\* HistoryCap down to 1), then MaxReqs requests (addItem, deleteItem of the
\* oldest, the newest or an added id) interleaved at their storage
\* requests; the store answers every request.
FullLedger ==
    [i \in 1..HistoryCap |->
        MakeHistoryItem(HistoryCap + 1 - i, getImageKey("A", HistoryCap + 1 - i), <<>>)]

InitFull ==
    /\ store = PutObject(EmptyStore, getHistoryFileKey("A"),
                         JSONstringify(FullLedger), "application/json")
    /\ pc = [p \in Procs |-> "idle"]
    /\ req = [p \in Procs |-> NoReq]
    /\ loc = [p \in Procs |-> NoLoc]
    /\ ret = [p \in Procs |-> NoRet]
    /\ nextId = HistoryCap + 1
    /\ idLimit = HistoryCap + MaxIds
    /\ reqLimit = MaxReqs
    /\ started = 0
    /\ faults = 0
    /\ store0 = [p \in Procs |-> EmptyStore]
    /\ issued = [p \in Procs |-> {}]
    /\ missed = [p \in Procs |-> {}]
    /\ lastWriter = [u \in Users |-> 0]
    /\ prev = NoPrev
    /\ pin = NoPin
    /\ pout = NoOut
    /\ ops = [p \in Procs |-> <<>>]
    /\ config = Settings
    /\ http = [p \in Procs |-> NoHttp]

NextFull ==
    \E p \in {1, 2} :
        \/ StartAdd(p, "A", <<>>)
        \/ AddLoad(p)
        \/ AddSave(p)
        \/ \E id \in {1, HistoryCap} \cup ((HistoryCap + 1)..(nextId - 1)) :
               StartDelete(p, "A", id)
        \/ DelLoad(p)
        \/ DelImage(p)
        \/ DelThumb(p)
        \/ DelInput(p)
        \/ DelSave(p)
        \/ Return(p)

SpecFull == InitFull /\ [][NextFull]_vars

\* SpecPure: the pure functions, applied to inputs drawn at the start: two
\* credentials for getUserIdFromApiKey, or one user and two (data URI,
\* fallback type) pairs for the key storeInputImage computes.
CredChars == {97, 75}

Creds == UNION {[1..n -> CredChars] : n \in 0..MaxCredLen}

\* "QQ" and the non-canonical "QR" both decode to the byte 65; "Qg" to 66.
PureData ==
    {[mime |-> "image/png", text |-> <<16, 16>>],
     [mime |-> "image/jpeg", text |-> <<16, 16>>],
     [mime |-> "image/jpg", text |-> <<16, 17>>],
     [mime |-> "IMAGE/PNG", text |-> <<16, 17>>],
     [mime |-> "", text |-> <<16, 16>>],
     [mime |-> "", text |-> <<16, 32>>]}

PureFallbacks == {"image/jpeg", "image/webp"}

InitPure ==
    /\ store = EmptyStore
    /\ pc = [p \in Procs |-> "idle"]
    /\ req = [p \in Procs |-> NoReq]
    /\ loc = [p \in Procs |-> NoLoc]
    /\ ret = [p \in Procs |-> NoRet]
    /\ nextId = 1
    /\ idLimit = 0
    /\ reqLimit = 0
    /\ started = 0
    /\ faults = 0
    /\ store0 = [p \in Procs |-> EmptyStore]
    /\ issued = [p \in Procs |-> {}]
    /\ missed = [p \in Procs |-> {}]
    /\ lastWriter = [u \in Users |-> 0]
    /\ prev = NoPrev
    /\ pout = NoOut
    /\ ops = [p \in Procs |-> <<>>]
    /\ config = Settings
    /\ http = [p \in Procs |-> NoHttp]
    /\ \/ \E c1 \in Creds, c2 \in Creds :
            pin = [NoPin EXCEPT !.kind = "derive", !.c1 = c1, !.c2 = c2]
       \/ \E u \in Users, d1 \in PureData, d2 \in PureData,
             f1 \in PureFallbacks, f2 \in PureFallbacks :
            pin = [NoPin EXCEPT !.kind = "store", !.userId = u,
                                !.d1 = d1, !.f1 = f1, !.d2 = d2, !.f2 = f2]

PureDerive ==
    /\ pin.kind = "derive"
    /\ ~pout.done
    /\ pout' = [NoOut EXCEPT !.done = TRUE,
                             !.ids = <<getUserIdFromApiKey(pin.c1),
                                       getUserIdFromApiKey(pin.c2)>>]
    /\ UNCHANGED <<store, procVars, nextId, idLimit, reqLimit, started, faults, histVars, pin, ops, httpVars>>

PureStoreKey ==
    /\ pin.kind = "store"
    /\ ~pout.done
    /\ pout' = [NoOut EXCEPT !.done = TRUE,
                             !.keys = <<InputImageKeyOf(pin.d1, pin.userId, pin.f1),
                                        InputImageKeyOf(pin.d2, pin.userId, pin.f2)>>]
    /\ UNCHANGED <<store, procVars, nextId, idLimit, reqLimit, started, faults, histVars, pin, ops, httpVars>>

NextPure == PureDerive \/ PureStoreKey

SpecPure == InitPure /\ [][NextPure]_vars

\* SpecDedup: NumProcs storeInputImage calls of one user in flight at once,
\* interleaved at their storage requests (the probe, the put), MaxReqs calls
\* in all; the store answers every request.  The uploads: one byte as a PNG, the same byte in
\* another base64 spelling, and the same byte as a JPEG.
DedupData == {[mime |-> "image/png", text |-> <<16, 16>>], RefAlias,
              [mime |-> "image/jpeg", text |-> <<16, 16>>]}

InitDedup == InitWith(0, 0, MaxReqs)

NextDedup ==
    \E p \in Procs :
        \/ \E d \in DedupData : StartStore(p, "A", d, RefFallback)
        \/ StHead(p)
        \/ StPut(p)
        \/ Return(p)

SpecDedup == InitDedup /\ [][NextDedup]_vars

\* SpecRace: POST requests of one user in one slot and DELETE requests of
\* the same user in another, in flight together and interleaved at their
\* storage requests; every POST carries the same reference image; the store
\* answers every request; POST draws MaxIds ids in all.
RaceBody ==
    [NoBody EXCEPT !.imageData = OutData, !.prompt = "p", !.mode = "outpaint",
                   !.inputImageData = Ref1]

InitRace == InitWith(0, MaxIds, 0)

NextRace ==
    \/ PostStart(1, "A", RaceBody)
    \/ PostImage(1)
    \/ PostThumb(1)
    \/ PostCallStore(1)
    \/ StHead(1)
    \/ StPut(1)
    \/ PostStoreReturn(1)
    \/ PostCallAdd(1)
    \/ AddLoad(1)
    \/ AddSave(1)
    \/ PostAddReturn(1)
    \/ HttpReturn(1)
    \/ \E id \in 1..MaxIds : DeleteStart(2, "A", id)
    \/ DeleteCall(2)
    \/ DelLoad(2)
    \/ DelImage(2)
    \/ DelThumb(2)
    \/ DelInput(2)
    \/ DelSave(2)
    \/ DeleteReturn(2)
    \/ HttpReturn(2)

SpecRace == InitRace /\ [][NextRace]_vars

\* SpecUsers: POST and DELETE requests of two users, one request at a time,
\* against a store whose requests may fail; every POST carries a thumbnail
\* and one reference image; POST draws MaxIds ids in all, and the two users
\* may draw the same one.
UsersBody ==
    [NoBody EXCEPT !.imageData = OutData, !.prompt = "p", !.mode = "img2img",
                   !.thumbnailData = ThumbData, !.inputImagesData = <<Ref1>>]

InitUsers == InitWith(MaxFaults, MaxIds, 0)

NextUsers ==
    \/ \E u \in Users : PostStart(1, u, UsersBody)
    \/ PostImage(1)
    \/ PostThumb(1)
    \/ PostCallStore(1)
    \/ StHead(1)
    \/ StPut(1)
    \/ PostStoreReturn(1)
    \/ PostCallAdd(1)
    \/ AddLoad(1)
    \/ AddSave(1)
    \/ PostAddReturn(1)
    \/ \E u \in Users : \E id \in 1..MaxIds : DeleteStart(1, u, id)
    \/ DeleteCall(1)
    \/ DelLoad(1)
    \/ DelImage(1)
    \/ DelThumb(1)
    \/ DelInput(1)
    \/ DelSave(1)
    \/ DeleteReturn(1)
    \/ HttpReturn(1)

SpecUsers == InitUsers /\ [][NextUsers]_vars

\* ---------------------------------------------------------------- claims

\* C1: in a run of sequential addItem calls from the empty ledger, after an
\* addItem that returned success its item is at index 0 of the user's
\* ledger; after the 101st such call (ids are handed out 1, 2, ...) the
\* ledger has exactly 100 items and the first-added item is not among them.
C1_AddItemNewestFirstCapped ==
    \A p \in Procs :
        (pc[p] = "done" /\ req[p].kind = "add" /\ ret[p].ok) =>
            LET ledger == Ledger(store, req[p].userId)
            IN  /\ Len(ledger) >= 1
                /\ SameItem(ledger[1], req[p].item)
                /\ req[p].item.id = HistoryCap + 1 =>
                       Len(ledger) = HistoryCap /\ 1 \notin Ids(ledger)

C1_Witness ==
    /\ pc[1] = "done" /\ req[1].kind = "add" /\ ret[1].ok
    /\ req[1].item.id = HistoryCap + 1
    /\ Len(Ledger(store, "A")) = HistoryCap
    /\ Ledger(store, "A")[1].id = HistoryCap + 1

\* The ledger a delete request found when it began, and the item it names.
LedgerBefore(p) == Ledger(store0[p], req[p].userId)

\* C2: a deleteItem of an item whose inputImageKey is also the inputImageKey
\* of another item of the ledger sends no delete for that blob, and the blob
\* stays; a deleteItem that succeeds on the last item with that
\* inputImageKey has sent a delete for the blob, and the blob is gone when
\* no storage request of the run failed.
C2_SharedReferenceKept ==
    \A p \in Procs :
        (pc[p] = "done" /\ req[p].kind = "delete" /\ HasItem(LedgerBefore(p), req[p].id)) =>
            LET before == LedgerBefore(p)
                key == Prop(FindItem(before, req[p].id), "inputImageKey")
                shared == \E i \in 1..Len(before) :
                             /\ before[i].id # req[p].id
                             /\ Prop(before[i], "inputImageKey") = key
            IN  key # Undefined =>
                    /\ shared => /\ key \notin issued[p]
                                 /\ key \in DOMAIN store0[p] => key \in DOMAIN store
                    /\ (~shared /\ ret[p].ok) =>
                                 /\ key \in issued[p]
                                 /\ faults = MaxFaults => key \notin DOMAIN store

C2_Witness ==
    /\ pc[1] = "done" /\ req[1].kind = "delete" /\ ret[1].ok
    /\ Len(LedgerBefore(1)) = 2
    /\ Prop(LedgerBefore(1)[1], "inputImageKey") = K1("A")
    /\ Prop(LedgerBefore(1)[2], "inputImageKey") = K1("A")
    /\ K1("A") \in DOMAIN store
    /\ K1("A") \notin issued[1]

\* Every key an item points at: its inputImageKey and the elements of its
\* inputImageKeys.
PointsAt(item) ==
    (IF Prop(item, "inputImageKey") # Undefined
     THEN {Prop(item, "inputImageKey")} ELSE {})
    \cup {Prop(item, "inputImageKeys")[i] : i \in 1..Len(Prop(item, "inputImageKeys"))}

\* C3: no deleteItem sends a delete for a reference-image blob whose key an
\* item remaining in the user's ledger still points at, through its
\* inputImageKey or through an element of its inputImageKeys.
C3_NoReferencedBlobDeleted ==
    \A p \in Procs :
        (pc[p] = "done" /\ req[p].kind = "delete") =>
            LET remaining == WithoutId(LedgerBefore(p), req[p].id)
            IN  \A k \in issued[p] :
                    k[1] = "inputs" =>
                        \A i \in 1..Len(remaining) : k \notin PointsAt(remaining[i])

\* C4: a deleteItem for an id that no item of the user's ledger has returns
\* failure, leaves the bucket (the ledger document and every blob) as it
\* was, and sends no delete.
C4_DeleteMissingId ==
    \A p \in Procs :
        (pc[p] = "done" /\ req[p].kind = "delete" /\ ~HasItem(LedgerBefore(p), req[p].id)) =>
            /\ ret[p].status = "returned"
            /\ ~ret[p].ok
            /\ store = store0[p]
            /\ issued[p] = {}

C4_Witness ==
    /\ pc[1] = "done" /\ req[1].kind = "delete"
    /\ Len(LedgerBefore(1)) >= 1
    /\ ~HasItem(LedgerBefore(1), req[1].id)
    /\ ~ret[1].ok

\* The request in slot q got as far as its save.
ReachedSave(q) ==
    \/ req[q].kind = "add"
    \/ req[q].kind = "delete" /\ HasItem(loc[q].history, req[q].id)

\* C5: when a request (addItem or deleteItem) loaded the ledger before
\* another request of the same user saved it, and then saves, it returns
\* success like the earlier writer did, and while its save is the last one
\* the ledger is the view it saved, without the earlier writer's change: an
\* item the earlier writer added is absent, an item it deleted that the later
\* writer had loaded is back.  (The two requests are two addItem, or an
\* addItem and a deleteItem.)
C5_LostUpdate ==
    \A q \in Procs :
        (pc[q] = "done" /\ ReachedSave(q) /\ missed[q] # {}) =>
            /\ ret[q].ok
            /\ lastWriter[req[q].userId] = q =>
                 LET ledger == Ledger(store, req[q].userId)
                 IN  /\ Equivalent(ledger, loc[q].saved)
                     /\ \A c \in missed[q] :
                          /\ c[1] = "add" => c[2] \notin Ids(ledger)
                          /\ (c[1] = "delete" /\ req[q].kind = "add"
                              /\ HasItem(loc[q].history, c[2])) => c[2] \in Ids(ledger)

C5_Witness ==
    \E q \in Procs :
        /\ pc[q] = "done" /\ req[q].kind = "add" /\ ret[q].ok
        /\ lastWriter["A"] = q
        /\ \E c \in missed[q] : c[1] = "add" /\ c[2] \notin Ids(Ledger(store, "A"))

\* The bytes a storeInputImage request decodes from its data URI.
ReqBuffer(r) == Base64Decode(r.imageData.text)

\* C6: two storeInputImage calls in sequence for the same user with the same
\* bytes under the same declared type, the key not stored before the first:
\* both return, with the same key, reused=false from the first and
\* reused=true from the second.
C6_SecondUploadReused ==
    \A p \in Procs :
        (/\ pc[p] = "done" /\ req[p].kind = "store"
         /\ prev.req.kind = "store"
         /\ prev.req.userId = req[p].userId
         /\ ReqBuffer(prev.req) = ReqBuffer(req[p])
         /\ prev.req.imageData.mime = req[p].imageData.mime
         /\ prev.req.fallbackMimeType = req[p].fallbackMimeType
         /\ ReqImageKey(prev.req) \notin prev.pre) =>
            /\ prev.ret.status = "returned"
            /\ ret[p].status = "returned"
            /\ ReqImageKey(prev.req) = ReqImageKey(req[p])
            /\ ~prev.ret.reused
            /\ ret[p].reused

C6_Witness ==
    /\ pc[1] = "done" /\ req[1].kind = "store"
    /\ prev.req.kind = "store"
    /\ prev.req.userId = req[1].userId
    /\ ReqBuffer(prev.req) = ReqBuffer(req[1])
    /\ prev.req.imageData.text # req[1].imageData.text
    /\ prev.req.imageData.mime = req[1].imageData.mime
    /\ ReqImageKey(prev.req) \notin prev.pre
    /\ ret[1].reused

\* C7 as stated: two storeInputImage calls of one user whose decoded bytes
\* are equal compute equal keys, whatever MIME prefix and fallback type each
\* call is given.
C7_SameBytesSameKey ==
    (pout.done /\ pin.kind = "store") =>
        (Base64Decode(pin.d1.text) = Base64Decode(pin.d2.text) =>
            pout.keys[1] = pout.keys[2])

\* The extension the fixed table gives a MIME type, its case ignored.
TableExt(m) ==
    CASE m \in {"image/png", "IMAGE/PNG"} -> "png"
      [] m = "image/webp" -> "webp"
      [] m = "image/gif" -> "gif"
      [] OTHER -> "jpg"

ResolvedMime(d, f) == IF d.mime # "" THEN d.mime ELSE f

\* C7 (amended): two storeInputImage calls of one user whose decoded bytes
\* are equal and whose resolved MIME types (the data URI's prefix, else the
\* fallback) map to the same extension compute equal keys.
C7_SameBytesSameExtSameKey ==
    (pout.done /\ pin.kind = "store") =>
        ((/\ Base64Decode(pin.d1.text) = Base64Decode(pin.d2.text)
          /\ TableExt(ResolvedMime(pin.d1, pin.f1)) = TableExt(ResolvedMime(pin.d2, pin.f2))) =>
            pout.keys[1] = pout.keys[2])

C7_Witness ==
    /\ pout.done /\ pin.kind = "store"
    /\ pin.d1.mime = "image/jpeg" /\ pin.d2.mime = "image/jpg"
    /\ pin.d1.text # pin.d2.text
    /\ Base64Decode(pin.d1.text) = Base64Decode(pin.d2.text)
    /\ pout.keys[1] = pout.keys[2]

\* C8: storeInputImage with identical content for two different users, one
\* call after the other: the two keys differ, and the second call reports
\* reused=true only if its key was in the bucket before the first user's
\* call began.
C8_PerUserKeys ==
    \A p \in Procs :
        (/\ pc[p] = "done" /\ req[p].kind = "store" /\ ret[p].status = "returned"
         /\ prev.req.kind = "store" /\ prev.ret.status = "returned"
         /\ prev.req.userId # req[p].userId
         /\ ReqBuffer(prev.req) = ReqBuffer(req[p])) =>
            /\ ReqImageKey(prev.req) # ReqImageKey(req[p])
            /\ ret[p].reused => ReqImageKey(req[p]) \in prev.pre

C8_Witness ==
    /\ pc[1] = "done" /\ req[1].kind = "store" /\ ret[1].status = "returned"
    /\ prev.req.kind = "store" /\ prev.ret.status = "returned"
    /\ prev.req.userId = "A" /\ req[1].userId = "B"
    /\ prev.req.imageData = req[1].imageData
    /\ ~prev.ret.reused
    /\ ReqImageKey(prev.req) \in DOMAIN store
    /\ ReqImageKey(req[1]) \notin prev.pre
    /\ ~ret[1].reused

\* C9: a load that follows a successful save of the same user, nothing
\* written in between, returns a sequence of the same length whose items
\* read the same, property by property, in the same order.
C9_SaveLoadRoundTrip ==
    \A p \in Procs :
        (/\ pc[p] = "done" /\ req[p].kind = "load"
         /\ prev.req.kind = "save" /\ prev.ret.ok
         /\ prev.req.userId = req[p].userId) =>
            /\ ret[p].status = "returned"
            /\ Equivalent(ret[p].history, prev.req.history)

C9_Witness ==
    /\ pc[1] = "done" /\ req[1].kind = "load"
    /\ prev.req.kind = "save" /\ prev.ret.ok
    /\ prev.req.userId = req[1].userId
    /\ Len(prev.req.history) = 2
    /\ Len(ret[1].history) = 2
    /\ "inputImageKey" \in DOMAIN prev.req.history[2]
    /\ "inputImageKey" \notin DOMAIN ret[1].history[2]
    /\ Prop(ret[1].history[1], "inputImageKey") = K1(req[1].userId)

\* C10: getUserIdFromApiKey gives equal credentials equal ids; for a
\* non-empty credential the id is 16 hex characters, the first 16 of the
\* credential's digest; for the empty credential it is 'anonymous'.
C10_UserIdShape ==
    (pout.done /\ pin.kind = "derive") =>
        /\ pin.c1 = pin.c2 => pout.ids[1] = pout.ids[2]
        /\ \A n \in 1..2 :
            LET c == IF n = 1 THEN pin.c1 ELSE pin.c2
                id == pout.ids[n]
            IN  /\ c = <<>> => id = Anonymous
                /\ c # <<>> =>
                     /\ Len(id) = 16
                     /\ \A j \in 1..Len(id) : IsHexChar(id[j]) /\ id[j] = Sha256Hex(c)[j]

C10_Witness ==
    /\ pout.done /\ pin.kind = "derive"
    /\ pin.c1 = <<>> /\ Len(pin.c2) = MaxCredLen
    /\ pout.ids[1] = Anonymous
    /\ Len(pout.ids[2]) = 16

\* The handler in slot p has answered a POST.
PostAnswered(p) == http[p].kind = "post" /\ http[p].stage = "responded"

\* C11: the item a POST builds has inputImageKey equal to the first element
\* of inputImageKeys, or has neither; when the mode is img2img or outpaint,
\* the body has two reference images and no store of a reference image
\* failed, inputImageKeys has length 2.  When the POST succeeds the item is
\* the first of the user's ledger, with the same keys.
C11_PostItemKeys ==
    \A p \in Procs :
        (PostAnswered(p) /\ http[p].item # NoItem) =>
            LET h == http[p]
                k == Prop(h.item, "inputImageKey")
                ks == Prop(h.item, "inputImageKeys")
            IN  /\ ks = Undefined => k = Undefined
                /\ ks # Undefined => k = ks[1]
                /\ (/\ h.body.mode \in {"img2img", "outpaint"}
                    /\ Len(h.body.inputImagesData) = 2
                    /\ "uploadInputImageWithDedup" \notin h.thrown) =>
                        Len(ks) = 2 /\ k = ks[1]
                /\ h.success =>
                        /\ Len(Ledger(store, h.userId)) >= 1
                        /\ SameItem(Ledger(store, h.userId)[1], h.item)

C11_Witness ==
    /\ PostAnswered(1) /\ http[1].success /\ http[1].code = 200
    /\ http[1].body.mode = "img2img"
    /\ Len(http[1].body.inputImagesData) = 2
    /\ Prop(Ledger(store, "A")[1], "inputImageKeys") = <<K1("A"), K2("A")>>
    /\ Prop(Ledger(store, "A")[1], "inputImageKey") = K1("A")

\* The blob deletions of the call in slot p that failed.
FailedDeletes(p) ==
    {i \in 1..Len(ops[p]) : ops[p][i][1] = "delete" /\ ops[p][i][3] = "error"}

\* C12: a deleteItem that found the item and had a blob deletion fail still
\* ends with the save of the ledger without the item: it returns what the
\* save returned, and when that is success the item is no longer in the
\* ledger.
C12_DeleteFailureNotFatal ==
    \A p \in Procs :
        (/\ pc[p] = "done" /\ req[p].kind = "delete"
         /\ HasItem(loc[p].history, req[p].id)
         /\ FailedDeletes(p) # {}) =>
            LET last == ops[p][Len(ops[p])]
            IN  /\ last[1] = "put"
                /\ last[2] = getHistoryFileKey(req[p].userId)
                /\ ret[p].status = "returned"
                /\ ret[p].ok = (last[3] = "ok")
                /\ ret[p].ok => ~HasItem(Ledger(store, req[p].userId), req[p].id)

C12_Witness ==
    /\ pc[1] = "done" /\ req[1].kind = "delete"
    /\ HasItem(LedgerBefore(1), req[1].id)
    /\ \E i \in FailedDeletes(1) : ops[1][i][2] = K1("A")
    /\ K1("A") \in DOMAIN store
    /\ ret[1].ok
    /\ ~HasItem(Ledger(store, "A"), req[1].id)

\* C13: no call of the ledger or store layer that has a PutObject fail
\* throws: neither a call running in a slot nor a call a handler made has
\* thrown.
C13_WriteFailuresAreBooleans ==
    \A p \in Procs :
        /\ ret[p].status # "thrown"
        /\ http[p].thrown = {}

\* C14: load never throws; it returns the stored sequence when the read of
\* the ledger document succeeds, and the empty sequence when the document
\* is missing or the read fails (the request is rejected, or the body cannot
\* be read or parsed).
C14_LoadFailsSoft ==
    \A p \in Procs :
        (pc[p] = "done" /\ req[p].kind = "load") =>
            LET key == getHistoryFileKey(req[p].userId)
            IN  /\ Len(ops[p]) = 1
                /\ ops[p][1][1] = "get" /\ ops[p][1][2] = key
                /\ ret[p].status = "returned"
                /\ ret[p].history =
                       IF ops[p][1][3] = "ok" /\ key \in DOMAIN store
                       THEN Ledger(store, req[p].userId)
                       ELSE <<>>

C14_Witness ==
    /\ pc[1] = "done" /\ req[1].kind = "load"
    /\ ops[1][1][3] = "error"
    /\ Len(Ledger(store, req[1].userId)) >= 1
    /\ ret[1].status = "returned"
    /\ ret[1].history = <<>>

\* The existence probe of the storeInputImage call in slot p was a clean hit.
ProbeHit(p) ==
    /\ ops[p][1][3] = "ok"
    /\ ReqImageKey(req[p]) \in DOMAIN store0[p]

\* C15: a storeInputImage whose probe was not a clean hit (the key is not
\* there, or the probe failed) goes on to the PutObject of the bytes under
\* the key and never reports reused=true; when the put succeeds the call
\* returns and the blob holds the bytes, whatever was there before.
C15_ProbeFailureReuploads ==
    \A p \in Procs :
        (pc[p] = "done" /\ req[p].kind = "store" /\ ~ProbeHit(p)) =>
            LET key == ReqImageKey(req[p])
            IN  /\ Len(ops[p]) = 2
                /\ ops[p][1][1] = "head" /\ ops[p][1][2] = key
                /\ ops[p][2][1] = "put" /\ ops[p][2][2] = key
                /\ ~ret[p].reused
                /\ ops[p][2][3] = "ok" =>
                       /\ ret[p].status = "returned"
                       /\ key \in DOMAIN store
                       /\ store[key].body = ReqBuffer(req[p])

C15_Witness ==
    /\ pc[1] = "done" /\ req[1].kind = "store"
    /\ ReqImageKey(req[1]) \in DOMAIN store0[1]
    /\ ops[1][1][3] = "error"
    /\ Len(ops[1]) = 2 /\ ops[1][2][3] = "ok"
    /\ ret[1].status = "returned"
    /\ ~ret[1].reused

\* C16: while a storage setting is missing no storage request is sent (the
\* bucket stays as it was, no call of the ledger or store layer runs), and
\* every request to GET history, POST history, DELETE history or GET image
\* is answered with 500 and failure, whatever it carries.
C16_Unconfigured500 ==
    (\E x \in Settings : x \notin config) =>
        /\ store = EmptyStore
        /\ \A p \in Procs :
            /\ pc[p] = "idle"
            /\ ops[p] = <<>>
            /\ http[p].kind # "none" =>
                 /\ http[p].stage = "responded"
                 /\ http[p].code = 500
                 /\ ~http[p].success
                 /\ http[p].sent = <<>>

C16_Witness ==
    /\ config = Settings \ {"R2_BUCKET_NAME"}
    /\ PostAnswered(1)
    /\ http[1].body.imageData # NoData /\ http[1].body.prompt # ""
    /\ http[1].code = 500
    /\ http[1].sent = <<>>

\* The handler in slot p has answered a GET image that named a key, with
\* the storage settings defined.
ImageAnswered(p) ==
    /\ http[p].kind = "image" /\ http[p].stage = "responded"
    /\ isR2Configured
    /\ http[p].key # Undefined

\* C17: with storage configured, GET image for a key answers 404 with
\* failure when no blob is stored under the key, and answers with bytes
\* (200) only when a blob is stored under it, the bytes being the blob's.
C17_ImageNotFound ==
    \A p \in Procs :
        ImageAnswered(p) =>
            /\ http[p].code \in {200, 404}
            /\ http[p].key \notin DOMAIN store =>
                   http[p].code = 404 /\ ~http[p].success
            /\ http[p].code = 200 =>
                   /\ http[p].key \in DOMAIN store
                   /\ http[p].bytes = store[http[p].key].body

C17_Witness ==
    /\ ImageAnswered(1)
    /\ http[1].key = getThumbnailKey("A", 1)
    /\ http[1].key \notin DOMAIN store
    /\ getImageKey("A", 1) \in DOMAIN store
    /\ http[1].sent[1][3] = "ok"
    /\ http[1].code = 404 /\ ~http[1].success

\* C18: a POST whose output-image upload succeeded goes on to the save of
\* the ledger, whether or not the thumbnail upload or a store of a
\* reference image failed, and when that save succeeds it answers 200 with
\* success, its item first in the ledger.
C18_BestEffortPost ==
    \A p \in Procs :
        (/\ PostAnswered(p)
         /\ Len(http[p].sent) >= 1
         /\ http[p].sent[1] = <<"put", getImageKey(http[p].userId, http[p].id), "ok">>) =>
            LET last == http[p].sent[Len(http[p].sent)]
            IN  /\ last[1] = "put"
                /\ last[2] = getHistoryFileKey(http[p].userId)
                /\ last[3] = "ok" =>
                       /\ http[p].code = 200
                       /\ http[p].success
                       /\ Len(Ledger(store, http[p].userId)) >= 1
                       /\ SameItem(Ledger(store, http[p].userId)[1], http[p].item)

C18_Witness ==
    /\ PostAnswered(1)
    /\ "uploadThumbnail" \in http[1].thrown
    /\ http[1].code = 200 /\ http[1].success
    /\ Ledger(store, "A")[1].id = http[1].id
    /\ getThumbnailKey("A", http[1].id) \notin DOMAIN store

\* C19: no two items of a user's ledger have the same id, and so no two
\* have the same imageKey.
C19_UniqueIds ==
    \A u \in Users :
        LET ledger == Ledger(store, u)
        IN  \A i, j \in 1..Len(ledger) :
                i # j => /\ ledger[i].id # ledger[j].id
                         /\ ledger[i].imageKey # ledger[j].imageKey

\* C20: every user's persisted ledger holds at most 100 items.
C20_AtMostCap ==
    \A u \in Users : Len(Ledger(store, u)) <= HistoryCap

C20_Witness ==
    \E q \in Procs :
        /\ pc[q] = "done" /\ req[q].kind = "add" /\ ret[q].ok
        /\ \E c \in missed[q] : c[1] = "add"
        /\ lastWriter["A"] = q
        /\ Len(loc[q].history) = HistoryCap
        /\ Len(Ledger(store, "A")) = HistoryCap
        /\ Ledger(store, "A")[1].id = req[q].item.id
        /\ ~HasItem(Ledger(store, "A"), 1)

\* C21: deleted is terminal.  Once a deleteItem of an id has returned
\* success, no item of the user's ledger has that id, whatever the other
\* requests of the user do in the meantime.
C21_DeletedIsTerminal ==
    \A p \in Procs :
        (pc[p] = "done" /\ req[p].kind = "delete" /\ ret[p].ok) =>
            req[p].id \notin Ids(Ledger(store, req[p].userId))

\* C22: a deleteItem that found its item sends, in this order, the delete
\* of the output blob, the delete of the thumbnail blob, the delete of the
\* reference blob when the item has one that no other item has as its
\* inputImageKey, and the save of the ledger; when that save fails the call
\* returns failure, every blob whose delete succeeded stays deleted, and the
\* ledger still holds the item.
C22_OrderedNoRollback ==
    \A p \in Procs :
        (pc[p] = "done" /\ req[p].kind = "delete" /\ HasItem(loc[p].history, req[p].id)) =>
            LET history == loc[p].history
                item == FindItem(history, req[p].id)
                ref == Prop(item, "inputImageKey")
                lone == /\ ref # Undefined
                        /\ \A i \in 1..Len(history) :
                              history[i].id # req[p].id =>
                                  Prop(history[i], "inputImageKey") # ref
                t == ops[p]
                n == Len(t)
                gone == {t[i][2] : i \in {j \in 1..n : t[j][1] = "delete" /\ t[j][3] = "ok"}}
            IN  /\ n = IF lone THEN 5 ELSE 4
                /\ t[1][1] = "get"
                /\ t[2][1] = "delete" /\ t[2][2] = item.imageKey
                /\ t[3][1] = "delete" /\ t[3][2] = getThumbnailKeyFromImageKey(item.imageKey)
                /\ lone => t[4][1] = "delete" /\ t[4][2] = ref
                /\ t[n][1] = "put" /\ t[n][2] = getHistoryFileKey(req[p].userId)
                /\ t[n][3] = "error" =>
                       /\ ret[p].status = "returned" /\ ~ret[p].ok
                       /\ \A k \in gone : k \notin DOMAIN store
                       /\ HasItem(Ledger(store, req[p].userId), req[p].id)

C22_Witness ==
    /\ http[1].kind = "delete"
    /\ pc[1] = "done" /\ req[1].kind = "delete" /\ ~ret[1].ok
    /\ Len(ops[1]) = 5 /\ ops[1][5] = <<"put", getHistoryFileKey("A"), "error">>
    /\ {getImageKey("A", req[1].id), getThumbnailKey("A", req[1].id), K1("A")}
           \subseteq DOMAIN store0[1]
    /\ \A k \in {getImageKey("A", req[1].id), getThumbnailKey("A", req[1].id), K1("A")} :
           k \notin DOMAIN store
    /\ HasItem(Ledger(store, "A"), req[1].id)

\* The reference blobs of a user that hold the given bytes.
BlobsHolding(u, buffer) ==
    {k \in DOMAIN store : k[1] = "inputs" /\ k[2] = u /\ store[k].body = buffer}

\* Two storeInputImage calls of one user, both returned, with the same bytes.
SameBytesReturned(p, q) ==
    /\ p # q
    /\ pc[p] = "done" /\ req[p].kind = "store" /\ ret[p].status = "returned"
    /\ pc[q] = "done" /\ req[q].kind = "store" /\ ret[q].status = "returned"
    /\ req[p].userId = req[q].userId
    /\ ReqBuffer(req[p]) = ReqBuffer(req[q])

\* C23 as stated: storeInputImage calls of one user in flight together with
\* identical bytes, however their probes and puts interleave, return the
\* same key and leave exactly one blob holding those bytes.
C23_SameBytesOneBlob ==
    \A p, q \in Procs :
        SameBytesReturned(p, q) =>
            /\ ReqImageKey(req[p]) = ReqImageKey(req[q])
            /\ BlobsHolding(req[p].userId, ReqBuffer(req[p])) = {ReqImageKey(req[p])}

\* C23 (amended): storeInputImage calls of one user in flight together with
\* identical bytes and resolved MIME types of the same extension, however
\* their probes and puts interleave, return the same key, and the blobs of
\* that extension holding those bytes are the one under that key.
C23_SameBytesSameExtOneBlob ==
    \A p, q \in Procs :
        (/\ SameBytesReturned(p, q)
         /\ TableExt(ResolvedMime(req[p].imageData, req[p].fallbackMimeType))
              = TableExt(ResolvedMime(req[q].imageData, req[q].fallbackMimeType))) =>
            /\ ReqImageKey(req[p]) = ReqImageKey(req[q])
            /\ {k \in BlobsHolding(req[p].userId, ReqBuffer(req[p])) :
                    k[4] = ReqImageKey(req[p])[4]} = {ReqImageKey(req[p])}

\* Both calls probed before either put: both uploaded, to one key.
C23_Witness ==
    /\ SameBytesReturned(1, 2)
    /\ req[1].imageData.text # req[2].imageData.text
    /\ ~ret[1].reused /\ ~ret[2].reused
    /\ Len(ops[1]) = 2 /\ Len(ops[2]) = 2
    /\ ReqImageKey(req[1]) = ReqImageKey(req[2])
    /\ BlobsHolding("A", ReqBuffer(req[1])) = {ReqImageKey(req[1])}

\* C24: an addItem that returned success has lost no item but those pushed
\* beyond the cap: every item at an index below 99 of the ledger persisted
\* before the call is in the ledger persisted after it, also when the read
\* of the call's load failed.
C24_AddKeepsItems ==
    \A p \in Procs :
        (pc[p] = "done" /\ req[p].kind = "add" /\ ret[p].ok) =>
            LET before == LedgerBefore(p)
                after == Ledger(store, req[p].userId)
            IN  \A i \in 1..Min(Len(before), HistoryCap - 1) :
                    \E j \in 1..Len(after) : SameItem(after[j], before[i])

\* C25: in every reachable state, the blob under the imageKey of each item
\* of a user's persisted ledger is in the store, whatever POST and DELETE
\* requests ran and whichever storage requests failed.
C25_NoDanglingOutput ==
    \A u \in Users :
        LET ledger == Ledger(store, u)
        IN  \A i \in 1..Len(ledger) : ledger[i].imageKey \in DOMAIN store

\* C26: when every POST and DELETE request so far has completed, each blob
\* stored under images/<userId>/ is the imageKey, or the thumbnail of the
\* imageKey, of an item of that user's ledger.
C26_NoOrphanOutput ==
    (\A p \in Procs : pc[p] = "idle" /\ http[p].kind = "none") =>
        \A k \in DOMAIN store :
            k[1] = "images" =>
                LET ledger == Ledger(store, k[2])
                IN  \E i \in 1..Len(ledger) :
                        \/ k = ledger[i].imageKey
                        \/ k = getThumbnailKeyFromImageKey(ledger[i].imageKey)

\* storeInputImage reported reused=true for the key to the handler: its
\* probe found the blob, and it sent no put.
ReportedReused(h, key) ==
    /\ \E i \in 1..Len(h.sent) : h.sent[i] = <<"head", key, "ok">>
    /\ \A i \in 1..Len(h.sent) : ~(h.sent[i][1] = "put" /\ h.sent[i][2] = key)

\* C27: when storeInputImage reported reused=true for a key to a POST and
\* the POST has added its item, which points at the key, then the blob under
\* the key is in the store while the item is in the ledger, also when a
\* DELETE of another item with that key runs together with the POST.
C27_ReusedBlobPresent ==
    \A p \in Procs :
        (http[p].kind = "post" /\ http[p].stage = "responded" /\ http[p].code = 200) =>
            LET h == http[p]
                ledger == Ledger(store, h.userId)
            IN  \A key \in PointsAt(h.item) :
                    (/\ ReportedReused(h, key)
                     /\ \E i \in 1..Len(ledger) : SameItem(ledger[i], h.item)) =>
                        key \in DOMAIN store

\* What a store holds for a user: the history document and the blobs under
\* images/<user>/ and inputs/<user>/.
UserObjects(st, u) == [k \in {x \in DOMAIN st : x[2] = u} |-> st[k]]

\* C28: every step of a request made for one user (the uploads of the
\* output image and the thumbnail, storeInputImage, addItem, deleteItem)
\* leaves the history document and every blob of every other user as they
\* were.
C28_PerUserIsolation ==
    [][\A u \in Users :
          u # http[1].userId => UserObjects(store', u) = UserObjects(store, u)]_vars

\* A DELETE of user A has removed A's item and blobs; user B's item of the
\* same id, and its blobs, are in place.
C28_Witness ==
    /\ http[1].kind = "delete" /\ http[1].userId = "A"
    /\ pc[1] = "done" /\ ret[1].ok
    /\ Ledger(store, "A") = <<>>
    /\ getImageKey("A", req[1].id) \in DOMAIN store0[1]
    /\ getImageKey("A", req[1].id) \notin DOMAIN store
    /\ K1("A") \notin DOMAIN store
    /\ req[1].id \in Ids(Ledger(store, "B"))
    /\ {getImageKey("B", req[1].id), getThumbnailKey("B", req[1].id), K1("B")}
           \subseteq DOMAIN store

====
